---- MODULE Spec2Model ----
(***************************************************************************)
(* Submodules and quotients of a module with basis, spanned by a basis in  *)
(* echelon form (sage/modules/with_basis/subquotient.py).                  *)
(*                                                                         *)
(* The base ring is the rational field of the doctests; a rational is a    *)
(* normalised pair <<numerator, denominator>>.  An element of a module is  *)
(* a record [parent, mc]: mc is its _monomial_coefficients, a function     *)
(* from the basis keys of the parent to the ring (0 = key absent).         *)
(***************************************************************************)
EXTENDS Integers, Sequences, FiniteSets, TLC

(* ---------------------------------------------------------------- bounds *)
Dim == 3        \* number of basis keys of an ambient module: 0 .. Dim-1
MaxRank == 2    \* largest number of generators of a submodule
MaxTerms == 2   \* largest number of terms of an element given as input
MaxAdded == 1   \* largest number of terms of the element w added in reduce(a*v + w)
MaxForeign == 1 \* largest number of generators of a submodule of another ambient space

(* ------------------------------------------------------------ base ring  *)
Abs(n) == IF n < 0 THEN 0 - n ELSE n

RECURSIVE Gcd(_, _)
Gcd(a, b) == IF b = 0 THEN a ELSE Gcd(b, a % b)

\* the rational n/d in lowest terms with a positive denominator (d # 0)
Norm(n, d) ==
    LET g == Gcd(Abs(n), Abs(d))
        s == IF d < 0 THEN 0 - 1 ELSE 1
    IN  << (s * n) \div g, (s * d) \div g >>

QInt(k) == << k, 1 >>
Zero == QInt(0)
One == QInt(1)
QAdd(a, b) == Norm(a[1] * b[2] + b[1] * a[2], a[2] * b[2])
QNeg(a) == << 0 - a[1], a[2] >>
QSub(a, b) == QAdd(a, QNeg(b))
QMul(a, b) == Norm(a[1] * b[1], a[2] * b[2])
QDiv(a, b) == Norm(a[1] * b[2], a[2] * b[1])

\* the ring elements the inputs are written with
Coefs == { QInt(k) : k \in {0 - 1, 0, 1} }

(* -------------------------------------------------- coefficient mappings *)
Idx == 0 .. (Dim - 1)

\* Python's None, where a basis key (a natural number) is expected
None == 0 - 1

\* a coefficient mapping holds its nonzero coefficients only, as _monomial_coefficients does
Clean(F) == [k \in { j \in DOMAIN F : F[j] # Zero } |-> F[k]]
Support(f) == DOMAIN f
Coef(f, k) == IF k \in DOMAIN f THEN f[k] ELSE Zero
ZeroMC == Clean([k \in {} |-> Zero])
MCAdd(f, g) == Clean([k \in DOMAIN f \cup DOMAIN g |-> QAdd(Coef(f, k), Coef(g, k))])
MCSub(f, g) == Clean([k \in DOMAIN f \cup DOMAIN g |-> QSub(Coef(f, k), Coef(g, k))])
MCScale(c, f) == Clean([k \in DOMAIN f |-> QMul(c, f[k])])
MCTerm(j, c) == Clean([k \in {j} |-> c])

\* the coefficient mappings with keys in K, at most MaxTerms terms, coefficients in Coefs
InputMC(K) ==
    { Clean(F) : F \in { G \in [K -> Coefs] :
                           Cardinality({ k \in K : G[k] # Zero }) <= MaxTerms } }

(* ----------------------------------------------------- modules, elements *)
\* the ambient modules, told apart by identity: 1 and 2 are
\* CombinatorialFreeModule(QQ, range(Dim)), 3 is the CombinatorialFreeModule(QQ, range(4))
\* of the examples of is_submodule
AmbientKeys(id) == IF id = 3 THEN 0 .. 3 ELSE Idx
Ambient(id) == [kind |-> "ambient", id |-> id, keys |-> AmbientKeys(id)]

Element(P, f) == [parent |-> P, mc |-> f]

\* CombinatorialFreeModule._from_dict: the element of P with the given coefficients
from_dict(P, d) == Element(P, d)

\* SubmoduleWithBasis.__init__: the arguments are stored as given
SubmoduleWithBasis(basis, support_order, ambient, unitriangular) ==
    [kind |-> "submodule", basis |-> basis, support_order |-> support_order,
     ambient |-> ambient, unitriangular |-> unitriangular]

\* the keys of the basis of a submodule: basis.keys()
Keys(S) == DOMAIN S.basis

\* SubmoduleWithBasis.ambient
ambient(S) == Ambient(S.ambient)

\* self.lift_on_basis = self._basis.__getitem__
lift_on_basis(S, i) == S.basis[i]

\* SubmoduleWithBasis.lift, the embedding: module_morphism(self.lift_on_basis,
\* codomain=self.ambient(), triangular="lower", unitriangular=self._unitriangular,
\* cmp=support_cmp, inverse_on_support="compute"), where support_cmp compares
\* self._support_order.index(x) with self._support_order.index(y)
lift(S) ==
    [domain |-> Keys(S), on_basis |-> [i \in Keys(S) |-> lift_on_basis(S, i)],
     codomain |-> ambient(S), triangular |-> "lower",
     unitriangular |-> S.unitriangular, cmp |-> S.support_order]

(* ----------------------------------------------- the triangular morphisms *)
\* list.index: the rank of the key x in the support order
index(support_order, x) ==
    CHOOSE r \in 1 .. Len(support_order) : support_order[r] = x

\* the key of a nonzero coefficient mapping f that a lower triangular morphism is
\* triangular at: the one cmp ranks first
dominant_item(L, f) ==
    CHOOSE j \in Support(f) : \A k \in Support(f) : index(L.cmp, j) <= index(L.cmp, k)

\* the position of the pivot of generator i
pivot(L, i) == dominant_item(L, L.on_basis[i].mc)

\* inverse_on_support="compute": the generator whose pivot is at j, or None
inverse_on_support(L, j) ==
    IF \E i \in L.domain : pivot(L, i) = j
    THEN CHOOSE i \in L.domain : pivot(L, i) = j
    ELSE None

\* the multiplier that cancels the coefficient c of the residual against the pivot
\* coefficient p: no division when the morphism is declared unitriangular
multiplier(L, c, p) == IF L.unitriangular THEN c ELSE QDiv(c, p)

\* linear extension of on_basis over the keys in K
RECURSIVE linear_extension(_, _, _)
linear_extension(L, y, K) ==
    IF K = {} THEN ZeroMC
    ELSE LET i == CHOOSE k \in K : TRUE
         IN  MCAdd(MCScale(Coef(y, i), L.on_basis[i].mc),
                   linear_extension(L, y, K \ {i}))

\* the morphism called on an element of its domain
morphism_call(L, y) == Element(L.codomain, linear_extension(L, y.mc, L.domain))

\* the outcome of a call: a returned value, or the exception it raised
Return(v) == [status |-> "ok", value |-> v]
Raise(e) == [status |-> e]
\* the ValueError of the section of a morphism: the argument is not in the image
NotInSpanError == "NotInSpanError"

\* back-substitution: the coefficients of the residual in the basis, added to out
RECURSIVE solve_coefficients(_, _, _)
solve_coefficients(L, remainder, out) ==
    IF Support(remainder) = {} THEN Return(out)
    ELSE LET j == dominant_item(L, remainder)
             i == inverse_on_support(L, j)
         IN  IF i = None THEN Raise(NotInSpanError)
             ELSE LET s == L.on_basis[i].mc
                      c == multiplier(L, remainder[j], Coef(s, j))
                  IN  solve_coefficients(L, MCSub(remainder, MCScale(c, s)),
                                         MCAdd(out, MCTerm(i, c)))

\* the section of the morphism, called on x: its preimage, an element of P
section(L, P, x) ==
    LET r == solve_coefficients(L, x.mc, ZeroMC)
    IN  IF r.status = "ok" THEN Return(Element(P, r.value)) ELSE r

\* one step of the elimination: the dominant term is cancelled against its pivot, or
\* moved to the result when no generator has its pivot there
eliminate_step(L, remainder, result) ==
    LET j == dominant_item(L, remainder)
        i == inverse_on_support(L, j)
    IN  IF i = None
        THEN LET t == MCTerm(j, remainder[j])
             IN  << MCSub(remainder, t), MCAdd(result, t) >>
        ELSE LET s == L.on_basis[i].mc
                 c == multiplier(L, remainder[j], Coef(s, j))
             IN  << MCSub(remainder, MCScale(c, s)), result >>

\* elimination of the pivot components; the terms without a pivot are kept
RECURSIVE eliminate(_, _, _)
eliminate(L, remainder, result) ==
    IF Support(remainder) = {} THEN result
    ELSE LET t == eliminate_step(L, remainder, result)
         IN  eliminate(L, t[1], t[2])

\* the cokernel projection of the morphism, called on x
cokernel_projection(L, x) == Element(L.codomain, eliminate(L, x.mc, ZeroMC))

\* the keys of the codomain basis that are the pivot of no generator
cokernel_basis_indices(L) == { j \in L.codomain.keys : inverse_on_support(L, j) = None }

(* ---------------------------------------------------- SubmoduleWithBasis *)
\* the reduce that cancels the dominant term only
reduce_once(S, x) ==
    IF Support(x.mc) = {} THEN x
    ELSE LET t == eliminate_step(lift(S), x.mc, ZeroMC)
         IN  Element(ambient(S), MCAdd(t[1], t[2]))

\* SubmoduleWithBasis.reduce = self.lift.cokernel_projection()
reduce(S, x) == cokernel_projection(lift(S), x)

\* the retract that gives the preimage of what is left of x modulo the submodule
retract_reduced(S, x) == section(lift(S), S, reduce(S, x))

\* the retract that gives the preimage of what reduce takes away from x
retract_projected(S, x) ==
    section(lift(S), S, Element(x.parent, MCSub(x.mc, reduce(S, x).mc)))

\* SubmoduleWithBasis.retract = self.lift.section()
retract(S, x) == section(lift(S), S, x)

(* ------------------------------------------------ QuotientModuleWithBasis *)
\* the quotient with all the keys of the ambient basis as its basis keys
QuotientOnAmbientKeys(S) ==
    [kind |-> "quotient", submodule |-> S, ambient |-> ambient(S),
     indices |-> ambient(S).keys]

\* QuotientModuleWithBasis.__init__
QuotientModuleWithBasis(S) ==
    [kind |-> "quotient", submodule |-> S, ambient |-> ambient(S),
     indices |-> cokernel_basis_indices(lift(S))]

\* QuotientModuleWithBasis.lift
quotient_lift(Q, x) == from_dict(Q.ambient, x.mc)

\* the retract that hands over the coefficients of x as they are
quotient_retract_unreduced(Q, x) == from_dict(Q, x.mc)

\* QuotientModuleWithBasis.retract
quotient_retract(Q, x) == from_dict(Q, reduce(Q.submodule, x).mc)

(* ------------------------------------------------------------- is_submodule *)
\* what calling a morphism on an element of another parent does is decided outside
\* this file: either the domain converts the element or the call raises TypeError
Conversions == {"convert", "TypeError"}

\* other.retract(x), x possibly an element of another ambient space
call_retract(other, x, conv) ==
    IF x.parent = ambient(other) THEN retract(other, x)
    ELSE IF conv = "convert"
         THEN retract(other, from_dict(ambient(other), x.mc))
         ELSE Raise("TypeError")

\* the basis of a submodule: the elements with one term of coefficient one
basis_element(S, i) == Element(S, MCTerm(i, One))

\* for b in self.basis(): try other.retract(b.lift()) except ValueError: return False
RECURSIVE basis_loop(_, _, _, _)
basis_loop(self, other, conv, K) ==
    IF K = {} THEN Return(TRUE)
    ELSE LET i == CHOOSE k \in K : \A m \in K : k <= m
             r == call_retract(other, morphism_call(lift(self), basis_element(self, i)), conv)
         IN  IF r.status = NotInSpanError THEN Return(FALSE)
             ELSE IF r.status # "ok" THEN r
             ELSE basis_loop(self, other, conv, K \ {i})

\* the is_submodule that retracts the generators into self
is_submodule_of_self(self, other, conv) ==
    IF other.kind = "ambient" /\ other.id = self.ambient THEN Return(TRUE)
    ELSE IF ~(self.kind = "submodule") /\ self.ambient = other.ambient
         THEN Raise("ValueError")
    ELSE basis_loop(self, self, conv, Keys(self))

\* self in ModulesWithBasis.FiniteDimensional: the basis has finitely many keys
FiniteDimensional(S) == IsFiniteSet(Keys(S))

\* SubmoduleWithBasis.is_submodule
is_submodule(self, other, conv) ==
    IF other.kind = "ambient" /\ other.id = self.ambient THEN Return(TRUE)
    ELSE IF ~(self.kind = "submodule") /\ self.ambient = other.ambient
         THEN Raise("ValueError")
    ELSE IF ~FiniteDimensional(self) THEN Raise("NotImplementedError")
    ELSE basis_loop(self, other, conv, Keys(self))

(* ------------------------------------------------------ the inputs drawn *)
\* the support orders: the keys in increasing and in decreasing order
Orders == { [r \in 1 .. Dim |-> r - 1], [r \in 1 .. Dim |-> Dim - r] }

\* the elements of an ambient space given as input
AmbientInputs(A) == { Element(A, f) : f \in InputMC(A.keys) }

\* the pivot of an echelon vector f under the support order o: its first nonzero position
PivotOf(o, f) ==
    CHOOSE j \in Support(f) : \A k \in Support(f) : index(o, j) <= index(o, k)

\* the families in echelon form: nonzero vectors with pairwise distinct pivots, listed
\* by increasing key of their pivot
EchelonFamilies(o) ==
    UNION { { b \in [0 .. (n - 1) -> InputMC(Idx) \ {ZeroMC}] :
                \A i, k \in 0 .. (n - 1) : i < k => PivotOf(o, b[i]) < PivotOf(o, b[k]) }
            : n \in 0 .. MaxRank }

\* the arguments a submodule is built from; unitriangular is set only when it is true
Constructions ==
    UNION { { t \in {o} \X EchelonFamilies(o) \X BOOLEAN :
                t[3] => \A i \in DOMAIN t[2] : t[2][i][PivotOf(o, t[2][i])] = One }
            : o \in Orders }

\* the submodules of the ambient space id
Submodules(id) ==
    { SubmoduleWithBasis([i \in DOMAIN t[2] |-> Element(Ambient(id), t[2][i])],
                         t[1], id, t[3]) : t \in Constructions }

\* X.submodule(gens) of the examples of is_submodule, X the ambient space 3
ExampleSubmodule(gens) ==
    SubmoduleWithBasis([i \in DOMAIN gens |-> Element(Ambient(3), gens[i])],
                       << 0, 1, 2, 3 >>, 3, FALSE)

MinusOne == QInt(0 - 1)
F == ExampleSubmodule(0 :> (0 :> One @@ 1 :> MinusOne) @@ 1 :> (1 :> One @@ 2 :> MinusOne)
                      @@ 2 :> (2 :> One @@ 3 :> MinusOne))
G == ExampleSubmodule(0 :> (0 :> One @@ 2 :> MinusOne))
H == ExampleSubmodule(0 :> (0 :> One @@ 1 :> MinusOne) @@ 1 :> (2 :> One))
Examples == {F, G, H}

\* the submodules the operations are called on
Selves == Submodules(1) \cup Examples

\* the arguments of S.is_submodule: the ambient space of S and the submodules, of the
\* same ambient space and of another one
Comparable ==
    Submodules(1) \cup { T \in Submodules(2) : Cardinality(DOMAIN T.basis) <= MaxForeign }
Others(S) == {ambient(S)} \cup (IF S.ambient = 3 THEN Examples ELSE Comparable)

\* the elements of a submodule or of a quotient given as input
ElementInputs(P, K) == { Element(P, f) : f \in InputMC(K) }

(* ------------------------------------------------------------- the state *)
VARIABLES
    S,      \* the submodule the operations are called on
    call    \* the operation called: its name, arguments and outcome

vars == << S, call >>

Init ==
    /\ S \in Selves
    /\ call = [op |-> "none"]

Ready == call.op = "none"

Called(r) ==
    /\ call' = r
    /\ UNCHANGED S

\* y.lift(), then the retract and the reduce of the result
LiftElement ==
    /\ Ready
    /\ \E y \in ElementInputs(S, Keys(S)) :
        LET x == morphism_call(lift(S), y)
        IN  Called([op |-> "lift", y |-> y, x |-> x,
                    retracted |-> retract(S, x), reduced |-> reduce(S, x)])

\* S.reduce(x), and S.reduce of the result
Reduce ==
    /\ Ready
    /\ \E x \in AmbientInputs(ambient(S)) :
        LET r == reduce(S, x)
        IN  Called([op |-> "reduce", x |-> x, reduced |-> r, again |-> reduce(S, r)])

\* S.reduce and Q.retract of x and of x + y.lift()
ReduceCoset ==
    /\ Ready
    /\ \E x \in AmbientInputs(ambient(S)), y \in ElementInputs(S, Keys(S)) :
        LET xs == Element(x.parent, MCAdd(x.mc, morphism_call(lift(S), y).mc))
            Q == QuotientModuleWithBasis(S)
        IN  Called([op |-> "coset", x |-> x, y |-> y, xs |-> xs,
                    reduced |-> reduce(S, x), reduced_xs |-> reduce(S, xs),
                    retracted |-> quotient_retract(Q, x),
                    retracted_xs |-> quotient_retract(Q, xs)])

\* S.reduce(a*v + w), S.reduce(v) and S.reduce(w)
ReduceLinear ==
    /\ Ready
    /\ \E a \in Coefs, v \in AmbientInputs(ambient(S)),
          w \in { u \in AmbientInputs(ambient(S)) : Cardinality(Support(u.mc)) <= MaxAdded } :
        Called([op |-> "linear", a |-> a, v |-> v, w |-> w,
                reduced_v |-> reduce(S, v), reduced_w |-> reduce(S, w),
                reduced |-> reduce(S, Element(v.parent, MCAdd(MCScale(a, v.mc), w.mc)))])

\* S.retract(x)
Retract ==
    /\ Ready
    /\ \E x \in AmbientInputs(ambient(S)) :
        Called([op |-> "retract", x |-> x, out |-> retract(S, x)])

\* Q.retract(x)
QuotientRetract ==
    /\ Ready
    /\ \E x \in AmbientInputs(ambient(S)) :
        LET Q == QuotientModuleWithBasis(S)
        IN  Called([op |-> "quotient_retract", Q |-> Q, x |-> x,
                    out |-> quotient_retract(Q, x)])

\* Q.retract(Q.lift(q))
QuotientLift ==
    /\ Ready
    /\ LET Q == QuotientModuleWithBasis(S)
       IN  \E q \in ElementInputs(Q, Q.indices) :
             LET x == quotient_lift(Q, q)
             IN  Called([op |-> "quotient_lift", Q |-> Q, q |-> q, x |-> x,
                         retracted |-> quotient_retract(Q, x)])

\* S.is_submodule(other)
IsSubmodule ==
    /\ Ready
    /\ \E other \in Others(S), conv \in Conversions :
        Called([op |-> "is_submodule", other |-> other,
                out |-> is_submodule(S, other, conv)])

Next ==
    \/ LiftElement
    \/ Reduce
    \/ ReduceCoset
    \/ ReduceLinear
    \/ Retract
    \/ QuotientRetract
    \/ QuotientLift
    \/ IsSubmodule

Spec == Init /\ [][Next]_vars


(* ------------------------------------------------------------ properties *)
\* the keys of the ambient basis that are the pivot of a generator of T
Pivots(T) == { PivotOf(T.support_order, T.basis[i].mc) : i \in Keys(T) }

\* the coefficients a membership in a span is searched with
SpanCoefs == { QInt(k) : k \in {0 - 2, 0 - 1, 0, 1, 2} }

\* some combination of the generators of T with coefficients in SpanCoefs is f
Combines(T, f) ==
    \E y \in [Keys(T) -> SpanCoefs] : linear_extension(lift(T), y, Keys(T)) = f

\* the submodule I = span(x0 - x1, x1 - x2) of the examples, support order [0, 1, 2]
IsExampleI ==
    /\ S.ambient = 1
    /\ S.support_order = [r \in 1 .. Dim |-> r - 1]
    /\ DOMAIN S.basis = 0 .. 1
    /\ S.basis[0].mc = (0 :> One @@ 1 :> MinusOne)
    /\ S.basis[1].mc = (1 :> One @@ 2 :> MinusOne)

\* C1: retract(lift(y)) is y, for every element y of the submodule, exactly.
LiftRetractInverse ==
    call.op = "lift" => call.retracted = Return(call.y)

\* a combination of two generators, one of them with a pivot that is not one, is
\* lifted and retracted
LiftRetractWitness ==
    /\ call.op = "lift"
    /\ Cardinality(Support(call.y.mc)) = 2
    /\ ~S.unitriangular
    /\ \E i \in Keys(S) : S.basis[i].mc[PivotOf(S.support_order, S.basis[i].mc)] # One
    /\ call.retracted.status = "ok"

\* C2: reduce(lift(y)) is the zero of the ambient space, for every generator and so
\* for every element y of the submodule.
ReduceKillsSubmodule ==
    call.op = "lift" => call.reduced = Element(ambient(S), ZeroMC)

\* a generator with two terms is lifted and reduced
ReduceKillsWitness ==
    /\ call.op = "lift"
    /\ \E i \in Keys(S) : call.y = basis_element(S, i)
    /\ Cardinality(Support(call.x.mc)) = 2
    /\ call.reduced.mc = ZeroMC

\* C3: reduce(x + s) is reduce(x) for every s in the submodule, and so the quotient
\* retracts x + s and x to the same element.
ReduceDependsOnCoset ==
    call.op = "coset" =>
        /\ call.reduced_xs = call.reduced
        /\ call.retracted_xs = call.retracted

\* with I = span(x0 - x1, x1 - x2): x1 and x1 + (x0 - x1) = x0 both retract to y2
ReduceCosetWitness ==
    /\ call.op = "coset"
    /\ IsExampleI
    /\ call.x.mc = (1 :> One)
    /\ call.y.mc = (0 :> One)
    /\ call.xs.mc = (0 :> One)
    /\ call.retracted_xs.mc = (2 :> One)
    /\ call.retracted.mc = (2 :> One)

\* C4: reduce(reduce(x)) is reduce(x), and reduce(x) has no term at a pivot.
ReduceIdempotent ==
    call.op = "reduce" =>
        /\ call.again = call.reduced
        /\ Support(call.reduced.mc) \cap Pivots(S) = {}

\* an element is changed by reduce, to an element that is not zero
ReduceIdempotentWitness ==
    /\ call.op = "reduce"
    /\ call.reduced # call.x
    /\ call.reduced.mc # ZeroMC
    /\ call.again = call.reduced

\* C5: reduce(a*v + w) is a*reduce(v) + reduce(w).
ReduceLinearity ==
    call.op = "linear" =>
        call.reduced = Element(ambient(S), MCAdd(MCScale(call.a, call.reduced_v.mc),
                                                 call.reduced_w.mc))

\* with I = span(x0 - x1, x1 - x2): reduce((x0 + x1) + x0) = reduce(2*x0 + x1) = 3*x2
ReduceLinearityWitness ==
    /\ call.op = "linear"
    /\ IsExampleI
    /\ call.a = One
    /\ call.v.mc = (0 :> One @@ 1 :> One)
    /\ call.w.mc = (0 :> One)
    /\ call.reduced.mc = (2 :> QInt(3))

\* C6: retract(x) fails with the not-in-span error when x is no combination of the
\* generators, and returns the element of the submodule that lifts to x when it is one.
RetractMembership ==
    call.op = "retract" =>
        /\ call.out.status = "ok" =>
              /\ call.out.value.parent = S
              /\ morphism_call(lift(S), call.out.value) = call.x
        /\ call.out.status # "ok" =>
              /\ call.out = Raise(NotInSpanError)
              /\ ~Combines(S, call.x.mc)

\* x0 is retracted into the span of x0 - x1 alone, and the retract fails
RetractMembershipWitness ==
    /\ call.op = "retract"
    /\ DOMAIN S.basis = 0 .. 0
    /\ S.basis[0].mc = (0 :> One @@ 1 :> MinusOne)
    /\ S.support_order = [r \in 1 .. Dim |-> r - 1]
    /\ call.x.mc = (0 :> One)
    /\ call.out = Raise(NotInSpanError)

\* C7: the retract of the quotient returns, for every x, the element of the quotient
\* with the coefficients of reduce(x), all of them at cokernel keys, none at a pivot.
QuotientRetractTotal ==
    call.op = "quotient_retract" =>
        /\ call.out.parent = call.Q
        /\ call.out.mc = reduce(S, call.x).mc
        /\ Support(call.out.mc) \subseteq call.Q.indices
        /\ Support(call.out.mc) \cap Pivots(S) = {}

\* an element with a term at a pivot is retracted to a quotient element that is not zero
QuotientRetractWitness ==
    /\ call.op = "quotient_retract"
    /\ Support(call.x.mc) \cap Pivots(S) # {}
    /\ call.out.mc # ZeroMC
    /\ call.out.mc # call.x.mc

\* C8: Q.retract(Q.lift(q)) is q, and Q.lift(q) has the coefficients of q.
QuotientRoundTrip ==
    call.op = "quotient_lift" =>
        /\ call.x = Element(ambient(S), call.q.mc)
        /\ call.retracted = call.q

\* a quotient element that is not zero, of the quotient by a submodule that is not
\* zero, is lifted and retracted
QuotientRoundTripWitness ==
    /\ call.op = "quotient_lift"
    /\ Keys(S) # {}
    /\ call.q.mc # ZeroMC
    /\ call.retracted = call.q

\* C9: S.is_submodule(other) is True for the ambient space of S and, for a submodule
\* other of the same ambient space, True when every generator of S retracts into
\* other (to an element that lifts to it) and False when some generator of S is no
\* combination of the generators of other; so in the example F.is_submodule(X) and
\* G.is_submodule(F) are True and H.is_submodule(F) is False.
IsSubmoduleDecides ==
    call.op = "is_submodule" =>
        /\ call.other.kind = "ambient" => call.out = Return(TRUE)
        /\ (call.other.kind = "submodule" /\ call.other.ambient = S.ambient) =>
              /\ call.out \in { Return(TRUE), Return(FALSE) }
              /\ call.out = Return(TRUE) =>
                    \A i \in Keys(S) :
                        LET r == retract(call.other, S.basis[i])
                        IN  /\ r.status = "ok"
                            /\ morphism_call(lift(call.other), r.value) = S.basis[i]
              /\ call.out = Return(FALSE) =>
                    \E i \in Keys(S) : ~Combines(call.other, S.basis[i].mc)
        /\ (S = F /\ call.other = Ambient(3)) => call.out = Return(TRUE)
        /\ (S = G /\ call.other = F) => call.out = Return(TRUE)
        /\ (S = H /\ call.other = F) => call.out = Return(FALSE)

\* H.is_submodule(F) has returned False
IsSubmoduleWitness ==
    /\ call.op = "is_submodule"
    /\ S = H
    /\ call.other = F
    /\ call.out = Return(FALSE)

\* C10: S.is_submodule(other) raises the contract error (the ValueError "other should
\* be a submodule of the same ambient space") when other is a submodule of another
\* ambient space.
IsSubmoduleRejectsOtherAmbient ==
    (/\ call.op = "is_submodule"
     /\ call.other.kind = "submodule"
     /\ call.other.ambient # S.ambient) => call.out = Raise("ValueError")

====
